---- MODULE Spec2Model ----
(***************************************************************************)
(* A model of src/models/swin_transformer.py: the Swin transformer's       *)
(* patch embedding, windowed multi-head attention (cyclic shift, window    *)
(* partition, relative-position index table, boundary masks) and the       *)
(* construction and forward pass of the four-stage model.                  *)
(*                                                                         *)
(* Tensors are modelled by their shape and, where a claim is about the     *)
(* layout, by their elements in row-major order.  An element is not a      *)
(* number but a label saying where it comes from, so that view, permute,   *)
(* reshape and roll are modelled by what they do to the positions.         *)
(***************************************************************************)
EXTENDS Integers, Sequences, FiniteSets, TLC

VARIABLES
    \* PatchEmbedding
    ppc,        \* PatchEmbedding.forward: position in the call
    pmod,       \* the PatchEmbedding module (window_size, linear, norm)
    pin,        \* the input of PatchEmbedding.forward
    patches,    \* the result of patchify (line 207)
    pout,       \* the current value of `out` in PatchEmbedding.forward
    \* MultiHeadedLocalAttention
    apc,        \* position in __init__ / forward
    amod,       \* the module: its fields, sub-modules and buffers
    ain,        \* the input of forward
    ax,         \* `input` after the cyclic shift (line 106)
    aqkv,       \* query, key, value (lines 123-127)
    ascore,     \* `score` (lines 129-139)
    aattn,      \* `attn` (lines 141-142)
    aout,       \* `out` (lines 144-156)
    \* SwinTransformer
    spc,        \* position in __init__ / forward
    scfg,       \* the arguments of __init__
    smodel,     \* the modules built so far
    sinput,     \* forward: the shape of the argument `input`
    sx,         \* forward: the shape of `out`
    spos        \* forward: <<block, index>> of the module to run next

patchVars == <<ppc, pmod, pin, patches, pout>>
attnVars == <<apc, amod, ain, ax, aqkv, ascore, aattn, aout>>
swinVars == <<spc, scfg, smodel, sinput, sx, spos>>
vars == <<patchVars, attnVars, swinVars>>

----------------------------------------------------------------------------
(* Bounds of the model.                                                    *)

MaxBatch == 2
MaxPatchSide == 4
MaxPatch == 2
MaxChan == 2
MaxStride == 2
MaxDepth == 2

----------------------------------------------------------------------------
(* Tensors: shapes, row-major indexing, view / reshape / permute / roll.   *)
(* A tensor is [ok, shape, data]: data holds the elements in row-major     *)
(* order (data[o + 1] is the element at offset o); ok is FALSE for the     *)
(* result of an operation that raises a shape error.                       *)

Min(a, b) == IF a < b THEN a ELSE b
Max(a, b) == IF a > b THEN a ELSE b

Front(s) == SubSeq(s, 1, Len(s) - 1)

RECURSIVE Numel(_)
Numel(shape) ==
    IF shape = <<>> THEN 1 ELSE Head(shape) * Numel(Tail(shape))

\* The multi-index (0-based entries) of the row-major offset `flat`.
RECURSIVE Unravel(_, _)
Unravel(flat, shape) ==
    IF shape = <<>> THEN <<>>
    ELSE LET n == Numel(Tail(shape))
         IN  <<flat \div n>> \o Unravel(flat % n, Tail(shape))

\* The row-major offset of a multi-index.
RECURSIVE Ravel(_, _)
Ravel(idx, shape) ==
    IF shape = <<>> THEN 0
    ELSE Head(idx) * Numel(Tail(shape)) + Ravel(Tail(idx), Tail(shape))

\* The row-major strides of a shape: the offset between two elements that
\* differ by one in dimension k.
Strides(shape) ==
    SubSeq([k \in 1..Len(shape) |->
              Numel(SubSeq(shape, k + 1, Len(shape)))], 1, Len(shape))

\* The offset, under the strides `to`, of the element whose row-major offset
\* under the strides `from` of `shape` is `flat`, over the dimensions 1..k.
RECURSIVE Restride(_, _, _, _, _)
Restride(flat, shape, from, to, k) ==
    IF k = 0 THEN 0
    ELSE ((flat \div from[k]) % shape[k]) * to[k]
            + Restride(flat, shape, from, to, k - 1)

ShapeError == [ok |-> FALSE, shape |-> <<>>, data |-> <<>>]

\* The offsets (from 1) of the elements of a result of shape `shape` computed
\* from t: all of them, or none when the elements of t are not followed (the
\* forward pass of the whole model follows the shapes only).
Elements(t, shape) ==
    IF DOMAIN t.data = {} THEN {} ELSE 1..Numel(shape)

At(t, idx) == t.data[Ravel(idx, t.shape) + 1]

\* Tensor.view / Tensor.reshape to an explicit shape: the element count must
\* agree, the row-major order of the elements is kept.
ReshapeShapeOk(shape, newshape) == Numel(shape) = Numel(newshape)

Reshape(t, newshape) ==
    IF ~t.ok \/ ~ReshapeShapeOk(t.shape, newshape) THEN ShapeError
    ELSE [ok |-> TRUE, shape |-> newshape, data |-> t.data]

\* reshape with one dimension given as -1: that dimension is inferred from
\* the element count; <<>> when no size fits.
InferShape(shape, target) ==
    LET known == [k \in 1..Len(target) |->
                    IF target[k] = -1 THEN 1 ELSE target[k]]
    IN  IF Numel(known) = 0 \/ Numel(shape) % Numel(known) # 0 THEN <<>>
        ELSE [k \in 1..Len(target) |->
                IF target[k] = -1 THEN Numel(shape) \div Numel(known)
                ELSE target[k]]

ReshapeInfer(t, target) ==
    IF ~t.ok \/ InferShape(t.shape, target) = <<>> THEN ShapeError
    ELSE [ok |-> TRUE, shape |-> InferShape(t.shape, target), data |-> t.data]

\* Tensor.permute(perm): perm holds the 0-based source dimension of each
\* dimension of the result.  The result is a view with the strides permuted:
\* its element at row-major offset o is the source element whose offset is
\* the sum over k of (index k of o) * (source stride of dimension perm[k]).
PermuteShape(shape, perm) == [k \in 1..Len(perm) |-> shape[perm[k] + 1]]

Permute(t, perm) ==
    IF ~t.ok \/ Len(perm) # Len(t.shape) THEN ShapeError
    ELSE LET ns == SubSeq(PermuteShape(t.shape, perm), 1, Len(perm))
             from == Strides(ns)
             src == Strides(t.shape)
             to == SubSeq([k \in 1..Len(perm) |-> src[perm[k] + 1]],
                          1, Len(perm))
         IN  [ok |-> TRUE, shape |-> ns,
              data |-> [e \in Elements(t, ns) |->
                          t.data[Restride(e - 1, ns, from, to, Len(ns)) + 1]]]

\* The labels held along the last dimension, of length n, in row r (0-based)
\* of the tensor seen as a matrix of rows of length n.
RowSet(t, r) ==
    LET n == t.shape[Len(t.shape)]
    IN  UNION {t.data[r * n + c + 1] : c \in 0..(n - 1)}

\* The set of labels held along the last dimension at the leading index.
LastDimSet(t, lead) == RowSet(t, Ravel(lead, Front(t.shape)))

\* nn.Linear on the last dimension: every output feature is a combination of
\* all the input features at the same leading index.
LinearMod(in_dim, out_dim, bias) ==
    [in_features |-> in_dim, out_features |-> out_dim, has_bias |-> bias,
     weight |-> "kaiming_uniform",
     bias |-> IF bias THEN "uniform" ELSE "none"]

LinearShape(lin, shape) ==
    IF shape = <<>> \/ shape[Len(shape)] # lin.in_features THEN <<>>
    ELSE Front(shape) \o <<lin.out_features>>

Linear(lin, t) ==
    IF ~t.ok \/ LinearShape(lin, t.shape) = <<>> THEN ShapeError
    ELSE LET ns == LinearShape(lin, t.shape)
         IN  [ok |-> TRUE, shape |-> ns,
              data |-> [e \in Elements(t, ns) |->
                          RowSet(t, (e - 1) \div lin.out_features)]]

\* nn.LayerNorm over the last dimension.
LayerNormMod(dim) ==
    [normalized_shape |-> dim, weight |-> "ones", bias |-> "zeros"]

LayerNormShape(norm, shape) ==
    IF shape = <<>> \/ shape[Len(shape)] # norm.normalized_shape THEN <<>>
    ELSE shape

LayerNormApply(norm, t) ==
    IF ~t.ok \/ LayerNormShape(norm, t.shape) = <<>> THEN ShapeError
    ELSE [ok |-> TRUE, shape |-> t.shape,
          data |-> [e \in Elements(t, t.shape) |->
                      RowSet(t, (e - 1) \div norm.normalized_shape)]]

----------------------------------------------------------------------------
(* patchify and PatchEmbedding.                                            *)

\* The value of a group of variables under a specification that does not
\* use them.
PatchIdle ==
    /\ ppc = "idle"
    /\ pmod = <<>>
    /\ pin = ShapeError /\ patches = ShapeError /\ pout = ShapeError

SwinIdle ==
    /\ spc = "idle"
    /\ scfg = <<>> /\ smodel = <<>>
    /\ sinput = <<>> /\ sx = <<>> /\ spos = <<0, 0>>

AttnIdle ==
    /\ apc = "idle"
    /\ amod = <<>>
    /\ ain = ShapeError /\ ax = ShapeError /\ aqkv = ShapeError
    /\ ascore = ShapeError /\ aattn = ShapeError /\ aout = ShapeError

PatchifyViewShape(shape, size) ==
    <<shape[1], shape[2] \div size, size, shape[3] \div size, size, shape[4]>>

PatchifyPerm == <<0, 1, 3, 2, 4, 5>>

PatchifyNoPermute(input, size) ==
    ReshapeInfer(Reshape(input, PatchifyViewShape(input.shape, size)),
                 <<input.shape[1], input.shape[2] \div size,
                   input.shape[3] \div size, -1>>)

patchify(input, size) ==
    ReshapeInfer(
        Permute(Reshape(input, PatchifyViewShape(input.shape, size)),
                PatchifyPerm),
        <<input.shape[1], input.shape[2] \div size, input.shape[3] \div size,
          -1>>)

PatchEmbedding(in_dim, out_dim, window_size) ==
    [kind |-> "PatchEmbedding", window_size |-> window_size,
     linear |-> LinearMod(in_dim * window_size * window_size, out_dim, TRUE),
     norm |-> LayerNormMod(out_dim)]

\* The input image or feature map: each element is labelled by its own
\* position (batch, row, column, channel).
InputTensor(shape) ==
    [ok |-> TRUE, shape |-> shape,
     data |-> [k \in 1..Numel(shape) |-> {Unravel(k - 1, shape)}]]

InitPatch ==
    /\ ppc = "start"
    /\ \E in_dim \in 1..MaxChan, s \in 1..MaxPatch :
          pmod = PatchEmbedding(in_dim, 2, s)
    /\ \E b \in 1..MaxBatch, h \in 1..MaxPatchSide, w \in 1..MaxPatchSide :
          pin = InputTensor(<<b, h, w, pmod.linear.in_features
                                \div (pmod.window_size * pmod.window_size)>>)
    /\ patches = ShapeError
    /\ pout = ShapeError
    /\ AttnIdle
    /\ SwinIdle

\* line 207: out = patchify(input, self.window_size)
PE_Patchify ==
    /\ ppc = "start"
    /\ patches' = patchify(pin, pmod.window_size)
    /\ pout' = patches'
    /\ ppc' = IF patches'.ok THEN "patchified" ELSE "error"
    /\ UNCHANGED <<pmod, pin, attnVars, swinVars>>

\* line 208: out = self.linear(out)
PE_Linear ==
    /\ ppc = "patchified"
    /\ pout' = Linear(pmod.linear, pout)
    /\ ppc' = IF pout'.ok THEN "projected" ELSE "error"
    /\ UNCHANGED <<pmod, pin, patches, attnVars, swinVars>>

\* lines 209-211: out = self.norm(out); return out
PE_Norm ==
    /\ ppc = "projected"
    /\ pout' = LayerNormApply(pmod.norm, pout)
    /\ ppc' = IF pout'.ok THEN "done" ELSE "error"
    /\ UNCHANGED <<pmod, pin, patches, attnVars, swinVars>>

NextPatch == PE_Patchify \/ PE_Linear \/ PE_Norm

SpecPatch == InitPatch /\ [][NextPatch]_vars

----------------------------------------------------------------------------
(* Python slices, create_mask, get_relative_distances.                     *)

\* A slice bound as Python normalises it for a dimension of length n.
PyIndex(i, n) == IF i < 0 THEN Max(i + n, 0) ELSE Min(i, n)

\* The indices selected by  start:  ,  :stop  and  start::step.
SliceFrom(start, n) == PyIndex(start, n)..(n - 1)
SliceTo(stop, n) == 0..(PyIndex(stop, n) - 1)
SliceStep(start, step, n) ==
    {i \in SliceFrom(start, n) : (i - PyIndex(start, n)) % step = 0}

\* float("-inf"), as an integer below every other value a mask holds.
NegInf == -1

\* lines 43-56.  The mask is (w^2, w^2); for the left_right part it is
\* reshaped to (w, w, w, w) = (query row, query column, key row, key column),
\* written, and reshaped back.  Later assignments overwrite earlier ones.
create_mask(window_size, displacement, upper_lower, left_right) ==
    LET n == window_size * window_size
        cut == (-displacement) * window_size
        UpperLower(q, k) ==
            \/ q \in SliceFrom(cut, n) /\ k \in SliceTo(cut, n)
            \/ q \in SliceTo(cut, n) /\ k \in SliceFrom(cut, n)
        LeftRight(i) ==
            \/ /\ i[2] \in SliceFrom(-displacement, window_size)
               /\ i[4] \in SliceTo(-displacement, window_size)
            \/ /\ i[2] \in SliceTo(-displacement, window_size)
               /\ i[4] \in SliceFrom(-displacement, window_size)
        w4 == <<window_size, window_size, window_size, window_size>>
    IN  [ok |-> TRUE, shape |-> <<n, n>>,
         data |-> [e \in 1..(n * n) |->
            IF left_right /\ LeftRight(Unravel(e - 1, w4)) THEN NegInf
            ELSE IF upper_lower
                    /\ UpperLower(Unravel(e - 1, <<n, n>>)[1],
                                  Unravel(e - 1, <<n, n>>)[2]) THEN 1
            ELSE 0]]

\* `mask > 0`: the boolean buffer registered at lines 85-90.
GreaterThanZero(t) ==
    [ok |-> TRUE, shape |-> t.shape,
     data |-> SubSeq([e \in 1..Numel(t.shape) |-> t.data[e] > 0],
                     1, Numel(t.shape))]

\* torch.arange(7) at line 60: the side of the grid the distances are built
\* for, whatever window_size is.
TableSide == 7

\* lines 59-63: indices = cartesian_prod(arange(7), arange(7)), one (y, x)
\* row per grid position i = y * 7 + x; distances[i, j] = indices[j] -
\* indices[i], of shape (49, 49, 2).  Element e of the row-major data is
\* (i, j, c) with e - 1 = (i * 49 + j) * 2 + c.
get_relative_distances(window_size) ==
    LET n == TableSide * TableSide
    IN  [ok |-> TRUE, shape |-> <<n, n, 2>>,
         data |-> [e \in 1..(n * n * 2) |->
            LET i == (e - 1) \div (2 * n)
                j == ((e - 1) \div 2) % n
            IN  IF (e - 1) % 2 = 0
                THEN (j \div TableSide) - (i \div TableSide)
                ELSE (j % TableSide) - (i % TableSide)]]

\* lines 92-94: pos = distances + window_size - 1; pos_y, pos_x = unbind(-1);
\* buffer "pos" = pos_y * (2 * window_size - 1) + pos_x.
PosBuffer(window_size) ==
    LET dist == get_relative_distances(window_size)
        n == dist.shape[1]
    IN  [ok |-> TRUE, shape |-> <<n, n>>,
         data |-> SubSeq([e \in 1..(n * n) |->
            LET pos_y == dist.data[2 * (e - 1) + 1] + window_size - 1
                pos_x == dist.data[2 * (e - 1) + 2] + window_size - 1
            IN  pos_y * (2 * window_size - 1) + pos_x], 1, n * n)]

----------------------------------------------------------------------------
(* MultiHeadedLocalAttention.                                              *)

NoBuffer == ShapeError

\* lines 72-81 and 95-96: the fields and sub-modules of the module.
AttnFields(dim, n_head, dim_head, input_size, window_size, shift) ==
    [dim_head |-> dim_head, n_head |-> n_head,
     weight |-> LinearMod(dim, n_head * dim_head * 3, FALSE),
     linear |-> LinearMod(n_head * dim_head, dim, TRUE),
     input_size |-> input_size, window_size |-> window_size, shift |-> shift,
     rel_pos |-> [num_embeddings |-> (2 * window_size - 1)
                                       * (2 * window_size - 1),
                  embedding_dim |-> n_head, weight |-> "zeros"]]

\* lines 83-94: the buffers; the masks are registered only when shift is set.
AttnBuffers(window_size, shift) ==
    [ul_mask |-> IF shift
                 THEN GreaterThanZero(
                        create_mask(window_size, window_size \div 2,
                                    TRUE, FALSE))
                 ELSE NoBuffer,
     lr_mask |-> IF shift
                 THEN GreaterThanZero(
                        create_mask(window_size, window_size \div 2,
                                    FALSE, TRUE))
                 ELSE NoBuffer,
     pos |-> PosBuffer(window_size)]

\* The buffers depend on window_size and shift only; they are computed once
\* for every window size that is tried.
BufferTable ==
    [shifted |-> SubSeq([w \in 1..(TableSide + 1) |-> AttnBuffers(w, TRUE)],
                        1, TableSide + 1),
     unshifted |-> SubSeq([w \in 1..(TableSide + 1) |->
                             AttnBuffers(w, FALSE)], 1, TableSide + 1)]

RegisteredBuffers(window_size, shift) ==
    IF shift THEN BufferTable.shifted[window_size]
    ELSE BufferTable.unshifted[window_size]

\* The index that index i of a dimension of length n is read from when the
\* dimension is rolled by `shift`.
RollSource(i, shift, n) == (i - shift) % n

\* The source offset of row-major offset `flat` under a roll by by[k] in
\* dimension k, over the dimensions 1..k.
RECURSIVE RollOffset(_, _, _, _, _)
RollOffset(flat, shape, strides, by, k) ==
    IF k = 0 THEN 0
    ELSE RollSource((flat \div strides[k]) % shape[k], by[k], shape[k])
            * strides[k]
            + RollOffset(flat, shape, strides, by, k - 1)

\* torch.roll(t, shifts, dims): dims are 0-based; the element at index i of a
\* rolled dimension of length n comes from index (i - shift) mod n, the other
\* dimensions are rolled by 0.
Roll(t, shifts, dims) ==
    IF ~t.ok THEN ShapeError
    ELSE LET n == Len(t.shape)
             strides == Strides(t.shape)
             by == SubSeq([d \in 1..n |->
                     IF \E j \in 1..Len(dims) : dims[j] + 1 = d
                     THEN shifts[CHOOSE j \in 1..Len(dims) : dims[j] + 1 = d]
                     ELSE 0], 1, n)
         IN  [ok |-> TRUE, shape |-> t.shape,
              data |-> [e \in Elements(t, t.shape) |->
                 t.data[RollOffset(e - 1, t.shape, strides, by, n) + 1]]]

\* Tensor.chunk(chunks, dim=-1)[i], i 0-based, for a last dimension that
\* chunks divides: row r of the chunk is the part i * size .. (i + 1) * size
\* - 1 of row r of the tensor.
Chunk(t, chunks, i) ==
    IF ~t.ok THEN ShapeError
    ELSE LET full == t.shape[Len(t.shape)]
             size == full \div chunks
             ns == Front(t.shape) \o <<size>>
         IN  [ok |-> TRUE, shape |-> ns,
              data |-> [e \in Elements(t, ns) |->
                 t.data[((e - 1) \div size) * full + i * size
                           + ((e - 1) % size) + 1]]]

\* Tensor.transpose(-2, -1).
TransposeLast(t) ==
    LET n == Len(t.shape)
    IN  Permute(t, [k \in 1..n |->
                      IF k = n - 1 THEN n - 1 ELSE IF k = n THEN n - 2
                      ELSE k - 1])

\* lines 108-121: the window partition of a (batch, H, W, n_head * dim_head)
\* tensor into (batch, n_head, windows, w * w, dim_head).
WindowPerm == <<0, 5, 1, 3, 2, 4, 6>>

reshape(input, batch, h_stride, w_stride, window, n_head, dim_head) ==
    ReshapeInfer(
        Permute(Reshape(input, <<batch, h_stride, window, w_stride, window,
                                 n_head, dim_head>>),
                WindowPerm),
        <<batch, n_head, -1, window * window, dim_head>>)

\* The shape of a @ b for batched matrices; <<>> when they do not fit.
MatmulShape(a, b) ==
    LET n == Len(a)
    IN  IF n < 2 \/ Len(b) # n \/ a[n] # b[n - 1]
           \/ SubSeq(a, 1, n - 2) # SubSeq(b, 1, n - 2) THEN <<>>
        ELSE SubSeq(a, 1, n - 1) \o <<b[n]>>

\* A finite score, whatever its value.
FiniteScore == 0

\* line 129: score = query @ key / sqrt(dim_head).
Score(query, key) ==
    IF ~query.ok \/ ~key.ok \/ MatmulShape(query.shape, key.shape) = <<>>
    THEN ShapeError
    ELSE LET ns == MatmulShape(query.shape, key.shape)
         IN  [ok |-> TRUE, shape |-> ns,
              data |-> [e \in Elements(query, ns) |-> FiniteScore]]

\* nn.Embedding lookup (line 130): every index must name a row of the table.
EmbeddingIndexOk(emb, index) ==
    \A e \in 1..Len(index.data) :
        0 <= index.data[e] /\ index.data[e] < emb.num_embeddings

\* lines 130-133: rel_pos = self.rel_pos(self.pos) has shape pos.shape +
\* (n_head,); it is permuted to (n_head, ., .) and reshaped to
\* (1, n_head, 1, w * w, w * w), then added to score by broadcasting.
RelPosBiasOk(mod, window) ==
    /\ EmbeddingIndexOk(mod.rel_pos, mod.pos)
    /\ ReshapeShapeOk(
          PermuteShape(mod.pos.shape \o <<mod.rel_pos.embedding_dim>>,
                       <<2, 0, 1>>),
          <<1, mod.n_head, 1, window * window, window * window>>)

\* score[:, :, windows].masked_fill_(mask, -inf): the (w^2, w^2) mask is
\* broadcast over batch, head and the selected windows.  Element e of the
\* (batch, head, windows, n, n) score is key (e - 1) mod n of query
\* ((e - 1) div n) mod n of window ((e - 1) div (n * n)) mod windows.
MaskedFillWholeWindow(score, windows, mask) ==
    IF ~score.ok THEN ShapeError
    ELSE
    LET n == score.shape[5]
    IN  [ok |-> TRUE, shape |-> score.shape,
         data |-> [e \in Elements(score, score.shape) |->
            IF (((e - 1) \div (n * n)) % score.shape[3]) \in windows
            THEN NegInf ELSE score.data[e]]]

MaskedFill(score, windows, mask) ==
    IF ~score.ok THEN ShapeError
    ELSE
    LET n == score.shape[5]
    IN  [ok |-> TRUE, shape |-> score.shape,
         data |-> [e \in Elements(score, score.shape) |->
            IF /\ (((e - 1) \div (n * n)) % score.shape[3]) \in windows
               /\ mask.data[(((e - 1) \div n) % n) * n + ((e - 1) % n) + 1]
            THEN NegInf ELSE score.data[e]]]

FillUpperLowerEveryWindow(score, mod, w_stride) ==
    MaskedFill(score, 0..(score.shape[3] - 1), mod.ul_mask)

\* line 136: score[:, :, -w_stride:].masked_fill_(self.ul_mask, -inf)
FillUpperLower(score, mod, w_stride) ==
    MaskedFill(score, SliceFrom(-w_stride, score.shape[3]), mod.ul_mask)

\* lines 137-139:
\* score[:, :, w_stride - 1 :: w_stride].masked_fill_(self.lr_mask, -inf)
FillLeftRight(score, mod, w_stride) ==
    MaskedFill(score, SliceStep(w_stride - 1, w_stride, score.shape[3]),
               mod.lr_mask)

\* line 141: softmax over the last dimension.  A -inf score gets weight
\* zero; a row of -inf only is 0/0.  Row r holds the elements
\* (r - 1) * n + 1 .. r * n, n the row length.
Softmax(score) ==
    IF ~score.ok THEN ShapeError
    ELSE
    LET n == score.shape[Len(score.shape)]
        rows == Numel(score.shape) \div n
        allMasked == SubSeq([r \in 1..rows |->
                        \A k \in 1..n : score.data[(r - 1) * n + k] = NegInf],
                        1, rows)
    IN  [ok |-> TRUE, shape |-> score.shape,
         data |-> [e \in Elements(score, score.shape) |->
            IF allMasked[((e - 1) \div n) + 1] THEN "nan"
            ELSE IF score.data[e] = NegInf THEN "zero" ELSE "weight"]]

\* line 144: out = attn @ value.  Row p of a window's output is the attention
\* output of query p: it carries the label of that row.
Attend(attn, value) ==
    IF ~attn.ok \/ ~value.ok \/ MatmulShape(attn.shape, value.shape) = <<>>
    THEN ShapeError
    ELSE [ok |-> TRUE, shape |-> MatmulShape(attn.shape, value.shape),
          data |-> value.data]

\* lines 146-152: the windows are put back into (batch, H, W, channels).
MergePermNoInterleave == <<0, 2, 3, 4, 5, 1, 6>>

MergePerm == <<0, 2, 4, 3, 5, 1, 6>>

\* bhw = (batch, height, width), the shape forward read at line 99.
Merge(out, bhw, window, n_head, dim_head) ==
    Reshape(
        Permute(Reshape(out, <<bhw[1], n_head, bhw[2] \div window,
                               bhw[3] \div window, window, window,
                               dim_head>>),
                MergePerm),
        <<bhw[1], bhw[2], bhw[3], n_head * dim_head>>)

----------------------------------------------------------------------------
(* MultiHeadedLocalAttention: construction and forward, step by step.      *)

\* The window sizes tried: below, at and above the side of the grid that
\* get_relative_distances is written for.
WindowSizes == 1..(TableSide + 1)

\* The heights and widths tried for a window size: its multiples, and the
\* sizes just below them, which it does not divide.
InputSides(window) ==
    {k * window - r : k \in 1..MaxStride, r \in {0, 1}} \ {0}

AttnBatch == ain.shape[1]
AttnHeight == ain.shape[2]
AttnWidth == ain.shape[3]

InitAttn ==
    /\ apc = "new"
    /\ \E window_size \in WindowSizes, shift \in BOOLEAN :
          amod = [dim |-> 1, n_head |-> 1, dim_head |-> 2,
                  window_size |-> window_size, shift |-> shift]
    /\ \E b \in {1, 2} :
       \E h \in InputSides(amod.window_size) :
       \E w \in InputSides(amod.window_size) :
          ain = InputTensor(<<b, h, w, amod.dim>>)
    /\ ax = ShapeError /\ aqkv = ShapeError /\ ascore = ShapeError
    /\ aattn = ShapeError /\ aout = ShapeError
    /\ PatchIdle
    /\ SwinIdle

\* lines 67-96: MultiHeadedLocalAttention.__init__
MHLA_Init ==
    /\ apc = "new"
    /\ amod' = AttnFields(amod.dim, amod.n_head, amod.dim_head,
                          <<AttnHeight, AttnWidth>>, amod.window_size,
                          amod.shift)
                 @@ RegisteredBuffers(amod.window_size, amod.shift)
    /\ apc' = "ready"
    /\ UNCHANGED <<ain, ax, aqkv, ascore, aattn, aout, patchVars, swinVars>>

\* lines 99-106: the strides, and the cyclic shift of a shifted layer.
Fwd_Roll ==
    /\ apc = "ready"
    /\ ax' = IF amod.shift
             THEN Roll(ain, <<-(amod.window_size \div 2),
                              -(amod.window_size \div 2)>>, <<1, 2>>)
             ELSE ain
    /\ apc' = "rolled"
    /\ UNCHANGED <<amod, ain, aqkv, ascore, aattn, aout, patchVars, swinVars>>

\* line 123: query, key, value = self.weight(input).chunk(3, dim=-1)
Fwd_Project ==
    /\ apc = "rolled"
    /\ LET qkv == Linear(amod.weight, ax)
       IN  /\ aqkv' = [ok |-> qkv.ok, query |-> Chunk(qkv, 3, 0),
                       key |-> Chunk(qkv, 3, 1), value |-> Chunk(qkv, 3, 2)]
           /\ apc' = IF qkv.ok THEN "projected" ELSE "error"
    /\ UNCHANGED <<amod, ain, ax, ascore, aattn, aout, patchVars, swinVars>>

\* lines 125-127: the window partition of query, key and value.
Fwd_Windows ==
    /\ apc = "projected"
    /\ LET window == amod.window_size
           h_stride == AttnHeight \div window
           w_stride == AttnWidth \div window
           query == reshape(aqkv.query, AttnBatch, h_stride, w_stride,
                            window, amod.n_head, amod.dim_head)
           key == TransposeLast(
                     reshape(aqkv.key, AttnBatch, h_stride, w_stride,
                             window, amod.n_head, amod.dim_head))
           value == reshape(aqkv.value, AttnBatch, h_stride, w_stride,
                            window, amod.n_head, amod.dim_head)
       IN  /\ aqkv' = [ok |-> query.ok, query |-> query, key |-> key,
                       value |-> value]
           /\ apc' = IF query.ok THEN "windows" ELSE "error"
    /\ UNCHANGED <<amod, ain, ax, ascore, aattn, aout, patchVars, swinVars>>

\* line 129
Fwd_Score ==
    /\ apc = "windows"
    /\ ascore' = Score(aqkv.query, aqkv.key)
    /\ apc' = IF ascore'.ok THEN "scored" ELSE "error"
    /\ UNCHANGED <<amod, ain, ax, aqkv, aattn, aout, patchVars, swinVars>>

\* lines 130-133: the relative-position bias is looked up and added.
Fwd_Bias ==
    /\ apc = "scored"
    /\ apc' = IF RelPosBiasOk(amod, amod.window_size) THEN "biased"
              ELSE "error"
    /\ UNCHANGED <<amod, ain, ax, aqkv, ascore, aattn, aout, patchVars,
                   swinVars>>

\* lines 135-136: a shifted layer fills the last row of windows.
Fwd_MaskUpperLower ==
    /\ apc = "biased"
    /\ amod.shift
    /\ ascore' = FillUpperLower(ascore, amod,
                                AttnWidth \div amod.window_size)
    /\ apc' = "ul_masked"
    /\ UNCHANGED <<amod, ain, ax, aqkv, aattn, aout, patchVars, swinVars>>

\* lines 137-139: and then the last column of windows.
Fwd_MaskLeftRight ==
    /\ apc = "ul_masked"
    /\ ascore' = FillLeftRight(ascore, amod, AttnWidth \div amod.window_size)
    /\ apc' = "masked"
    /\ UNCHANGED <<amod, ain, ax, aqkv, aattn, aout, patchVars, swinVars>>

\* line 135: an unshifted layer masks nothing.
Fwd_NoMask ==
    /\ apc = "biased"
    /\ ~amod.shift
    /\ apc' = "masked"
    /\ UNCHANGED <<amod, ain, ax, aqkv, ascore, aattn, aout, patchVars,
                   swinVars>>

\* lines 141-142: softmax; dropout with the default rate 0 changes nothing.
Fwd_Softmax ==
    /\ apc = "masked"
    /\ aattn' = Softmax(ascore)
    /\ apc' = "softmaxed"
    /\ UNCHANGED <<amod, ain, ax, aqkv, ascore, aout, patchVars, swinVars>>

\* line 144
Fwd_Attend ==
    /\ apc = "softmaxed"
    /\ aout' = Attend(aattn, aqkv.value)
    /\ apc' = IF aout'.ok THEN "attended" ELSE "error"
    /\ UNCHANGED <<amod, ain, ax, aqkv, ascore, aattn, patchVars, swinVars>>

\* lines 146-152
Fwd_Merge ==
    /\ apc = "attended"
    /\ aout' = Merge(aout, <<AttnBatch, AttnHeight, AttnWidth>>,
                     amod.window_size, amod.n_head, amod.dim_head)
    /\ apc' = IF aout'.ok THEN "merged" ELSE "error"
    /\ UNCHANGED <<amod, ain, ax, aqkv, ascore, aattn, patchVars, swinVars>>

\* line 153: out = self.linear(out)
Fwd_Linear ==
    /\ apc = "merged"
    /\ aout' = Linear(amod.linear, aout)
    /\ apc' = IF aout'.ok THEN "linear" ELSE "error"
    /\ UNCHANGED <<amod, ain, ax, aqkv, ascore, aattn, patchVars, swinVars>>

\* lines 155-158: the shift is undone with roll = -floor(window / 2) negated.
Fwd_Unroll ==
    /\ apc = "linear"
    /\ aout' = IF amod.shift
               THEN Roll(aout, <<amod.window_size \div 2,
                                 amod.window_size \div 2>>, <<1, 2>>)
               ELSE aout
    /\ apc' = "done"
    /\ UNCHANGED <<amod, ain, ax, aqkv, ascore, aattn, patchVars, swinVars>>

NextAttn ==
    \/ MHLA_Init
    \/ Fwd_Roll
    \/ Fwd_Project
    \/ Fwd_Windows
    \/ Fwd_Score
    \/ Fwd_Bias
    \/ Fwd_MaskUpperLower
    \/ Fwd_MaskLeftRight
    \/ Fwd_NoMask
    \/ Fwd_Softmax
    \/ Fwd_Attend
    \/ Fwd_Merge
    \/ Fwd_Linear
    \/ Fwd_Unroll

SpecAttn == InitAttn /\ [][NextAttn]_vars

----------------------------------------------------------------------------
(* The forward functions of the modules, as functions of the input.        *)

\* lines 98-158: MultiHeadedLocalAttention.forward, the steps above in one.
AttnForward(mod, input) ==
    LET batch == input.shape[1]
        height == input.shape[2]
        width == input.shape[3]
        window == mod.window_size
        h_stride == height \div window
        w_stride == width \div window
        rolled == IF mod.shift
                  THEN Roll(input, <<-(window \div 2), -(window \div 2)>>,
                            <<1, 2>>)
                  ELSE input
        qkv == Linear(mod.weight, rolled)
        query == reshape(Chunk(qkv, 3, 0), batch, h_stride, w_stride, window,
                         mod.n_head, mod.dim_head)
        key == TransposeLast(
                  reshape(Chunk(qkv, 3, 1), batch, h_stride, w_stride, window,
                          mod.n_head, mod.dim_head))
        value == reshape(Chunk(qkv, 3, 2), batch, h_stride, w_stride, window,
                         mod.n_head, mod.dim_head)
        score == Score(query, key)
        biased == IF score.ok /\ RelPosBiasOk(mod, window) THEN score
                  ELSE ShapeError
        masked == IF mod.shift
                  THEN FillLeftRight(FillUpperLower(biased, mod, w_stride),
                                     mod, w_stride)
                  ELSE biased
        out == Linear(mod.linear,
                      Merge(Attend(Softmax(masked), value),
                            <<batch, height, width>>, window, mod.n_head,
                            mod.dim_head))
    IN  IF ~input.ok THEN ShapeError
        ELSE IF mod.shift
        THEN Roll(out, <<window \div 2, window \div 2>>, <<1, 2>>)
        ELSE out

\* lines 206-211: PatchEmbedding.forward
PatchEmbeddingForward(mod, input) ==
    LayerNormApply(mod.norm,
                   Linear(mod.linear, patchify(input, mod.window_size)))

\* a + b for two tensors of one shape (a residual connection).
Add(a, b) ==
    IF ~a.ok \/ ~b.ok \/ a.shape # b.shape THEN ShapeError
    ELSE [ok |-> TRUE, shape |-> a.shape,
          data |-> [e \in Elements(a, a.shape) |-> a.data[e] \cup b.data[e]]]

\* DropPath of .layer with the rate 0 the model is built with by default, or
\* in evaluation: the branch passes through.
DropPath(t) == t

\* lines 15-25: PositionwiseFeedForward = Linear, activation, Linear, Dropout.
PositionwiseFeedForward(in_dim, dim) ==
    [fc1 |-> LinearMod(in_dim, dim, TRUE), fc2 |-> LinearMod(dim, in_dim, TRUE)]

FeedForward(ff, t) == Linear(ff.fc2, Linear(ff.fc1, t))

\* lines 162-186: TransformerLayer.__init__
TransformerLayer(dim, n_head, dim_head, dim_ff, input_size, window, shift) ==
    [kind |-> "TransformerLayer",
     norm_attn |-> LayerNormMod(dim),
     attn |-> AttnFields(dim, n_head, dim_head, input_size, window, shift)
                @@ RegisteredBuffers(window, shift),
     norm_ff |-> LayerNormMod(dim),
     ff |-> PositionwiseFeedForward(dim, dim_ff)]

\* lines 191-195: TransformerLayer.forward
TransformerLayerForward(layer, input) ==
    LET out == Add(input,
                   DropPath(AttnForward(layer.attn,
                                        LayerNormApply(layer.norm_attn,
                                                       input))))
    IN  Add(out, DropPath(FeedForward(layer.ff,
                                      LayerNormApply(layer.norm_ff, out))))

----------------------------------------------------------------------------
(* SwinTransformer: construction.                                          *)

\* lines 214-215
reduce_size(size, reduction) ==
    <<size[1] \div reduction, size[2] \div reduction>>

\* lines 254-257: the input channels of the first stage, and the reduction
\* of each stage.
ImageChannels == 3
StageReductionsWrong == <<4, 4, 2, 2>>
StageReductions == <<4, 2, 2, 2>>

\* lines 254-257: the input_size argument of the four make_block calls.
StageInputSize(cfg, i) ==
    IF i = 1 THEN cfg.image_size
    ELSE IF i = 2 THEN reduce_size(cfg.image_size, 4)
    ELSE IF i = 3 THEN reduce_size(cfg.image_size, 4 * 2)
    ELSE reduce_size(cfg.image_size, 4 * 2 * 2)

\* line 304: shift=i % 2 == 0, for the 0-based index i of the layer.
LayerShift(i) == i % 2 = 0

\* lines 238-252 and 278-311: make_block for stage i (1-based): a
\* PatchEmbedding followed by depths[i] TransformerLayers.
make_block(cfg, i, in_dim, input_size, reduction) ==
    <<PatchEmbedding(in_dim, cfg.dims[i], reduction)>>
    \o [k \in 1..cfg.depths[i] |->
          TransformerLayer(cfg.dims[i], cfg.n_heads[i], cfg.dim_head,
                           cfg.dim_ffs[i], reduce_size(input_size, reduction),
                           cfg.window_size, LayerShift(k - 1))]

\* nn.init.normal_(weight, std=...), in hundredths.
NormalStd(hundredths) == [dist |-> "normal", mean |-> 0, std100 |-> hundredths]

\* lines 267-276: init_weights for one Linear or LayerNorm module.
InitLinear(lin) ==
    [lin EXCEPT !.weight = NormalStd(2),
                !.bias = IF lin.has_bias THEN "zeros" ELSE @]

InitLayerNorm(norm) == [norm EXCEPT !.weight = "ones", !.bias = "zeros"]

\* self.apply(self.init_weights) visits every sub-module.  In a
\* PatchEmbedding and a TransformerLayer these are the Linear and LayerNorm
\* modules below; the Embedding rel_pos is neither and is left as it is.
InitModule(m) ==
    IF m.kind = "PatchEmbedding"
    THEN [m EXCEPT !.linear = InitLinear(@), !.norm = InitLayerNorm(@)]
    ELSE [m EXCEPT !.norm_attn = InitLayerNorm(@),
                   !.attn.weight = InitLinear(@),
                   !.attn.linear = InitLinear(@),
                   !.norm_ff = InitLayerNorm(@),
                   !.ff.fc1 = InitLinear(@),
                   !.ff.fc2 = InitLinear(@)]

InitBlock(block) == [k \in 1..Len(block) |-> InitModule(block[k])]

ApplyInitWeights(model) ==
    [blocks |-> [i \in 1..Len(model.blocks) |-> InitBlock(model.blocks[i])],
     final_linear |-> InitLayerNorm(model.final_linear),
     classifier |-> InitLinear(model.classifier)]

\* The configuration of the model the specification names (section 8), with
\* the head counts and feed-forward widths of that model.
SwinT ==
    [image_size |-> <<224, 224>>, n_class |-> 1000,
     depths |-> <<2, 2, 6, 2>>, dims |-> <<96, 192, 384, 768>>,
     dim_head |-> 32, n_heads |-> <<3, 6, 12, 24>>,
     dim_ffs |-> <<384, 768, 1536, 3072>>, window_size |-> 7]

\* The configurations tried: the one above, and it with other depths, image
\* sizes and window sizes.
SwinConfigs ==
    {[SwinT EXCEPT !.depths = d, !.image_size = s, !.window_size = w] :
        d \in {<<2, 2, 6, 2>>} \cup {<<n, n, n, n>> : n \in 0..MaxDepth},
        s \in {<<224, 224>>, <<224, 112>>, <<112, 112>>},
        w \in {7, 4}}

NoModel == [blocks |-> <<>>, final_linear |-> <<>>, classifier |-> <<>>]

InitSwin ==
    /\ spc = "init"
    /\ scfg \in SwinConfigs
    /\ smodel = NoModel
    /\ \E batch \in 1..MaxBatch :
          sinput = <<batch, ImageChannels, scfg.image_size[1],
                     scfg.image_size[2]>>
    /\ sx = <<>>
    /\ spos = <<0, 0>>
    /\ PatchIdle
    /\ AttnIdle

\* lines 254-257: self.block1 .. self.block4
Swin_MakeBlock ==
    /\ spc = "init"
    /\ LET i == Len(smodel.blocks) + 1
       IN  /\ smodel' = [smodel EXCEPT !.blocks = Append(@,
                make_block(scfg, i,
                           IF i = 1 THEN ImageChannels ELSE scfg.dims[i - 1],
                           StageInputSize(scfg, i), StageReductions[i]))]
           /\ spc' = IF i = 4 THEN "blocks" ELSE "init"
    /\ UNCHANGED <<scfg, sinput, sx, spos, patchVars, attnVars>>

\* line 259: self.final_linear = nn.Sequential(nn.LayerNorm(dims[-1]))
Swin_FinalLinear ==
    /\ spc = "blocks"
    /\ smodel' = [smodel EXCEPT !.final_linear = LayerNormMod(scfg.dims[4])]
    /\ spc' = "final_linear"
    /\ UNCHANGED <<scfg, sinput, sx, spos, patchVars, attnVars>>

\* lines 260-263: the classifier's Linear, its weight drawn with std 0.01.
Swin_Classifier ==
    /\ spc = "final_linear"
    /\ smodel' = [smodel EXCEPT !.classifier =
                    [LinearMod(scfg.dims[4], scfg.n_class, TRUE)
                        EXCEPT !.weight = NormalStd(1), !.bias = "zeros"]]
    /\ spc' = "classifier"
    /\ UNCHANGED <<scfg, sinput, sx, spos, patchVars, attnVars>>

\* line 265: self.apply(self.init_weights)
Swin_ApplyInitWeights ==
    /\ spc = "classifier"
    /\ smodel' = ApplyInitWeights(smodel)
    /\ spc' = "constructed"
    /\ UNCHANGED <<scfg, sinput, sx, spos, patchVars, attnVars>>

----------------------------------------------------------------------------
(* SwinTransformer.forward, on the shape of the tensor.                    *)

\* A tensor of which only the shape is followed.
OfShape(shape) == [ok |-> TRUE, shape |-> shape, data |-> <<>>]

\* The module after position (i, k): the next one of block i, or the first
\* one of block i + 1; <<5, 1>> after the last module of block4.
NextPos(model, pos) ==
    IF pos[2] < Len(model.blocks[pos[1]]) THEN <<pos[1], pos[2] + 1>>
    ELSE <<pos[1] + 1, 1>>

\* line 314: input.permute(0, 2, 3, 1) is handed to block1.
Swin_Forward ==
    /\ spc = "constructed"
    /\ sx' = PermuteShape(sinput, <<0, 2, 3, 1>>)
    /\ spos' = <<1, 1>>
    /\ spc' = "forward"
    /\ UNCHANGED <<scfg, smodel, sinput, patchVars, attnVars>>

\* lines 314-317: the PatchEmbedding at the head of a block.
Swin_PatchEmbedding ==
    /\ spc = "forward"
    /\ spos[1] <= 4
    /\ smodel.blocks[spos[1]][spos[2]].kind = "PatchEmbedding"
    /\ LET out == PatchEmbeddingForward(smodel.blocks[spos[1]][spos[2]],
                                        OfShape(sx))
       IN  /\ sx' = out.shape
           /\ spc' = IF out.ok THEN "forward" ELSE "error"
    /\ spos' = NextPos(smodel, spos)
    /\ UNCHANGED <<scfg, smodel, sinput, patchVars, attnVars>>

\* lines 314-317: a TransformerLayer of a block.
Swin_TransformerLayer ==
    /\ spc = "forward"
    /\ spos[1] <= 4
    /\ smodel.blocks[spos[1]][spos[2]].kind = "TransformerLayer"
    /\ LET out == TransformerLayerForward(smodel.blocks[spos[1]][spos[2]],
                                          OfShape(sx))
       IN  /\ sx' = out.shape
           /\ spc' = IF out.ok THEN "forward" ELSE "error"
    /\ spos' = NextPos(smodel, spos)
    /\ UNCHANGED <<scfg, smodel, sinput, patchVars, attnVars>>

\* line 318: out = self.final_linear(out).permute(0, 3, 1, 2)
Swin_FinalNorm ==
    /\ spc = "forward"
    /\ spos[1] = 5
    /\ LET out == Permute(LayerNormApply(smodel.final_linear, OfShape(sx)),
                          <<0, 3, 1, 2>>)
       IN  /\ sx' = out.shape
           /\ spc' = IF out.ok THEN "final" ELSE "error"
    /\ UNCHANGED <<scfg, smodel, sinput, spos, patchVars, attnVars>>

\* nn.AdaptiveAvgPool2d(1) on (batch, channels, H, W), then nn.Flatten(1).
PoolFlatten(t) ==
    IF ~t.ok \/ Len(t.shape) # 4 \/ t.shape[3] = 0 \/ t.shape[4] = 0
    THEN ShapeError
    ELSE OfShape(<<t.shape[1], t.shape[2] * 1 * 1>>)

\* lines 319-321: out = self.classifier(out); return out
Swin_Classify ==
    /\ spc = "final"
    /\ LET out == Linear(smodel.classifier, PoolFlatten(OfShape(sx)))
       IN  /\ sx' = out.shape
           /\ spc' = IF out.ok THEN "done" ELSE "error"
    /\ UNCHANGED <<scfg, smodel, sinput, spos, patchVars, attnVars>>

NextSwin ==
    \/ Swin_MakeBlock
    \/ Swin_FinalLinear
    \/ Swin_Classifier
    \/ Swin_ApplyInitWeights
    \/ Swin_Forward
    \/ Swin_PatchEmbedding
    \/ Swin_TransformerLayer
    \/ Swin_FinalNorm
    \/ Swin_Classify

SpecSwin == InitSwin /\ [][NextSwin]_vars

----------------------------------------------------------------------------
(* Patch embedding: the claim about patchify and PatchEmbedding.           *)

PatchSize == pmod.window_size
PatchDivisible ==
    pin.shape[2] % PatchSize = 0 /\ pin.shape[3] % PatchSize = 0

\* The input pixels of the block of rows [i*s, (i+1)*s) and columns
\* [j*s, (j+1)*s) of batch entry b.
PatchBlock(b, i, j) ==
    {<<b, y, x, c>> : y \in (i * PatchSize)..((i + 1) * PatchSize - 1),
                      x \in (j * PatchSize)..((j + 1) * PatchSize - 1),
                      c \in 0..(pin.shape[4] - 1)}

PatchPositions ==
    (0..(pin.shape[1] - 1)) \X (0..(pin.shape[2] \div PatchSize - 1))
        \X (0..(pin.shape[3] \div PatchSize - 1))

\* C8: PatchEmbedding.forward raises a shape error exactly when the height or
\* the width of the input is not divisible by the patch size; otherwise the
\* output's spatial dims are (H/s, W/s), output position (i, j) is built from
\* exactly the pixels of block (i, j), and every input pixel feeds exactly one
\* output position.
C8_PatchEmbedding ==
    /\ ppc # "start" => ((ppc = "error") <=> ~PatchDivisible)
    /\ ppc \in {"patchified", "projected", "done"} =>
          /\ SubSeq(patches.shape, 1, 3)
                = <<pin.shape[1], pin.shape[2] \div PatchSize,
                    pin.shape[3] \div PatchSize>>
          /\ SubSeq(pout.shape, 1, 3) = SubSeq(patches.shape, 1, 3)
          /\ \A p \in PatchPositions :
                LastDimSet(patches, <<p[1], p[2], p[3]>>)
                    = PatchBlock(p[1], p[2], p[3])
          /\ \A k \in 1..Len(pin.data) : \A px \in pin.data[k] :
                Cardinality({p \in PatchPositions :
                    px \in LastDimSet(patches, <<p[1], p[2], p[3]>>)}) = 1
    /\ ppc = "done" =>
          \A p \in PatchPositions : \A o \in 0..(pout.shape[4] - 1) :
              At(pout, <<p[1], p[2], p[3], o>>) = PatchBlock(p[1], p[2], p[3])

\* A completed patch embedding of a 4 x 4 input with 2 x 2 patches.
C8_Witness ==
    /\ ppc = "done"
    /\ PatchSize = 2
    /\ pin.shape[2] = 4 /\ pin.shape[3] = 4
    /\ pout.shape = <<pin.shape[1], 2, 2, pmod.linear.out_features>>

----------------------------------------------------------------------------
(* Windowed attention: the geometry the claims are stated in.              *)

Window == amod.window_size
Displacement == Window \div 2
HStride == AttnHeight \div Window
WStride == AttnWidth \div Window
WindowArea == Window * Window
AttnDivisible == AttnHeight % Window = 0 /\ AttnWidth % Window = 0
Constructed == apc # "new"

\* Position p of a window is row p div w, column p mod w (line 120 flattens
\* the (w, w) positions of a window in row-major order).
InLastRows(p) == (p \div Window) >= Window - Displacement
InLastCols(p) == (p % Window) >= Window - Displacement

\* The score of (query q, key k) in window s for batch entry b, head h.
ScoreOf(b, h, s, q, k) == At(ascore, <<b, h, s, q, k>>)

ScoreEntries ==
    (0..(ascore.shape[1] - 1)) \X (0..(ascore.shape[2] - 1))
        \X (0..(ascore.shape[3] - 1))

AfterMasking == {"masked", "softmaxed", "attended", "merged", "linear", "done"}

\* C2: in a shifted layer, once the masks are applied, every window of the
\* last column of windows has -inf at every (query, key) pair of which
\* exactly one lies in the last floor(w/2) columns of the window.
C2_HorizontalWrapMasked ==
    (amod.shift /\ apc \in AfterMasking) =>
        \A e \in ScoreEntries :
            (e[3] % WStride = WStride - 1) =>
                \A q \in 0..(WindowArea - 1), k \in 0..(WindowArea - 1) :
                    (InLastCols(q) # InLastCols(k)) =>
                        ScoreOf(e[1], e[2], e[3], q, k) = NegInf

\* C3: the vertical-wrap mask is exact.  The registered buffer marks (q, k)
\* exactly when one of the two lies in the last floor(w/2) rows of the
\* window; and after it is applied (line 136), the -inf entries of the score
\* are exactly those pairs in the windows of the last row of windows.
C3_VerticalWrapExact ==
    /\ (Constructed /\ amod.shift) =>
          \A q \in 0..(WindowArea - 1), k \in 0..(WindowArea - 1) :
              At(amod.ul_mask, <<q, k>>) <=> (InLastRows(q) # InLastRows(k))
    /\ apc = "ul_masked" =>
          \A e \in ScoreEntries :
              \A q \in 0..(WindowArea - 1), k \in 0..(WindowArea - 1) :
                  (ScoreOf(e[1], e[2], e[3], q, k) = NegInf)
                    <=> /\ e[3] >= HStride * WStride - WStride
                        /\ InLastRows(q) # InLastRows(k)

\* A shifted layer with 2 x 2 windows whose vertical-wrap mask was applied.
C3_Witness ==
    /\ apc = "ul_masked"
    /\ HStride = 2 /\ WStride = 2
    /\ ScoreOf(0, 0, 2, 0, WindowArea - 1) = NegInf
    /\ ScoreOf(0, 0, 1, 0, WindowArea - 1) # NegInf

\* C5: when the window size divides the height and the width, forward raises
\* no error and its output has the shape of its input.
C5_ShapePreserved ==
    AttnDivisible =>
        /\ apc # "error"
        /\ apc = "done" => aout.shape = ain.shape

\* The pair of positions with the same offset as (q, k) that lies nearest to
\* the top left corner of the window.
CanonQ(q, k) ==
    LET dy == (k \div Window) - (q \div Window)
        dx == (k % Window) - (q % Window)
    IN  Max(0, -dy) * Window + Max(0, -dx)

CanonK(q, k) ==
    LET dy == (k \div Window) - (q \div Window)
        dx == (k % Window) - (q % Window)
    IN  (Max(0, -dy) + dy) * Window + (Max(0, -dx) + dx)

InPosTable(q, k) == q < amod.pos.shape[1] /\ k < amod.pos.shape[2]

\* C6: for a window size of at least 4, every two (query, key) pairs of
\* positions of the window with the same offset (dy, dx) get the same entry
\* of the bias table from the index table, and that entry is one of the
\* (2w-1)^2 entries of the table.
C6_SameOffsetSameEntry ==
    (Constructed /\ Window >= 4) =>
        \A q \in 0..(WindowArea - 1), k \in 0..(WindowArea - 1) :
            /\ InPosTable(q, k)
            /\ At(amod.pos, <<q, k>>)
                  = At(amod.pos, <<CanonQ(q, k), CanonK(q, k)>>)
            /\ At(amod.pos, <<q, k>>) >= 0
            /\ At(amod.pos, <<q, k>>) < (2 * Window - 1) * (2 * Window - 1)

\* The position a token at (y, x) has after the cyclic shift of the layer.
RolledY(y) == IF amod.shift THEN (y - Displacement) % AttnHeight ELSE y
RolledX(x) == IF amod.shift THEN (x - Displacement) % AttnWidth ELSE x

AttnPositions ==
    (0..(AttnBatch - 1)) \X (0..(AttnHeight - 1)) \X (0..(AttnWidth - 1))

\* The token of an input position: the labels of its channels.
Token(b, y, x) == LastDimSet(ain, <<b, y, x>>)

\* C9: the layout transforms of forward compose to the identity.  The shift
\* puts token (y, x) at ((y - floor(w/2)) mod H, (x - floor(w/2)) mod W);
\* the window partition puts it in the window of the block (y div w,
\* x div w) of that position, at the place of its position in the block, so
\* that two tokens share a window exactly when they share a block; and the
\* output of forward holds at (y, x) the row of token (y, x).
C9_LayoutRoundTrip ==
    /\ apc = "rolled" =>
          \A p \in AttnPositions :
              LastDimSet(ax, <<p[1], RolledY(p[2]), RolledX(p[3])>>)
                  = Token(p[1], p[2], p[3])
    /\ apc = "windows" =>
          \A p \in AttnPositions : \A h \in 0..(amod.n_head - 1) :
              LastDimSet(aqkv.query,
                  <<p[1], h,
                    (RolledY(p[2]) \div Window) * WStride
                        + (RolledX(p[3]) \div Window),
                    (RolledY(p[2]) % Window) * Window
                        + (RolledX(p[3]) % Window)>>)
                  = Token(p[1], p[2], p[3])
    /\ apc = "done" =>
          /\ aout.shape = ain.shape
          /\ \A p \in AttnPositions :
                LastDimSet(aout, <<p[1], p[2], p[3]>>)
                    = Token(p[1], p[2], p[3])

\* A shifted layer over 2 x 2 windows whose forward has returned.
C9_Witness ==
    /\ apc = "done"
    /\ amod.shift
    /\ HStride = 2 /\ WStride = 2
    /\ AttnBatch = 2

\* C10: in a shifted layer no softmax row is fully masked.  Neither buffer
\* marks a pair (q, q); after the masks are applied the score of (q, q) is
\* finite in every window; and softmax yields no 0/0.
C10_DiagonalNeverMasked ==
    /\ (Constructed /\ amod.shift) =>
          \A q \in 0..(WindowArea - 1) :
              ~At(amod.ul_mask, <<q, q>>) /\ ~At(amod.lr_mask, <<q, q>>)
    /\ (amod.shift /\ apc \in {"ul_masked", "masked"}) =>
          \A e \in ScoreEntries : \A q \in 0..(WindowArea - 1) :
              ScoreOf(e[1], e[2], e[3], q, q) # NegInf
    /\ (amod.shift /\ apc = "softmaxed") =>
          \A e \in 1..Len(aattn.data) : aattn.data[e] # "nan"

\* A shifted layer with a single window, which is in the last row and in the
\* last column of windows, after softmax.
C10_Witness ==
    /\ apc = "softmaxed"
    /\ amod.shift
    /\ HStride = 1 /\ WStride = 1
    /\ \E e \in 1..Len(aattn.data) : aattn.data[e] = "zero"

----------------------------------------------------------------------------
(* SwinTransformer: the claims about construction and the forward pass.    *)

\* The TransformerLayers built so far, as <<block, index in the block>>; the
\* layer of make_block's loop index i is at index i + 2 of its block.
BuiltLayers ==
    UNION {{<<i, k>> : k \in 2..Len(smodel.blocks[i])} :
              i \in 1..Len(smodel.blocks)}

LoopIndex(p) == p[2] - 2

\* C1: in every stage built by make_block the layers alternate starting
\* from unshifted: the layer at index 0 and at every even index is
\* unshifted, the layer at every odd index is shifted.
C1_StartsUnshifted ==
    spc # "idle" =>
        \A p \in BuiltLayers :
            smodel.blocks[p[1]][p[2]].attn.shift = (LoopIndex(p) % 2 = 1)

\* Every nn.Linear of the model other than the classifier's.
OtherLinears ==
    {smodel.blocks[i][1].linear : i \in 1..Len(smodel.blocks)}
    \cup UNION {{smodel.blocks[p[1]][p[2]].attn.weight,
                 smodel.blocks[p[1]][p[2]].attn.linear,
                 smodel.blocks[p[1]][p[2]].ff.fc1,
                 smodel.blocks[p[1]][p[2]].ff.fc2} : p \in BuiltLayers}

SwinConstructed == spc \in {"constructed", "forward", "final", "done", "error"}

\* C4: once the constructor has run all its initialisation steps, the
\* classifier's linear weight is drawn from Normal(0, 0.01) and the weight of
\* every other linear layer from Normal(0, 0.02).
C4_ClassifierKeepsStd ==
    SwinConstructed =>
        /\ smodel.classifier.weight = NormalStd(1)
        /\ \A lin \in OtherLinears : lin.weight = NormalStd(2)

\* The configuration claim C7 is about.
IsSwinT ==
    /\ spc # "idle"
    /\ scfg.image_size = <<224, 224>> /\ scfg.n_class = 1000
    /\ scfg.depths = <<2, 2, 6, 2>> /\ scfg.dims = <<96, 192, 384, 768>>
    /\ scfg.window_size = 7

\* The module forward runs next is a TransformerLayer: its attention is the
\* next windowed-attention call, on a feature map of the shape sx.
AttentionCallNext ==
    /\ spc = "forward"
    /\ spos[1] <= 4
    /\ smodel.blocks[spos[1]][spos[2]].kind = "TransformerLayer"

\* Stage i (1..4) has run to its end.
StageDone(i) == spc = "forward" /\ spos = <<i + 1, 1>>

\* C7: with image_size (224, 224), depths (2, 2, 6, 2), dims (96, 192, 384,
\* 768), window_size 7, n_class 1000 and any batch size, the forward pass
\* goes through the four stages, which reduce the side by 4, 2, 2, 2, with
\* height and width divisible by the window size at every windowed-attention
\* call, raises no shape error and returns a tensor of shape (batch, 1000).
C7_EndToEnd ==
    IsSwinT =>
        /\ spc # "error"
        /\ AttentionCallNext => sx[2] % 7 = 0 /\ sx[3] % 7 = 0
        /\ StageDone(1) => sx = <<sinput[1], 56, 56, 96>>
        /\ StageDone(2) => sx = <<sinput[1], 28, 28, 192>>
        /\ StageDone(3) => sx = <<sinput[1], 14, 14, 384>>
        /\ StageDone(4) => sx = <<sinput[1], 7, 7, 768>>
        /\ spc = "done" => sx = <<sinput[1], 1000>>

C7_Witness ==
    IsSwinT /\ spc = "done" /\ sinput[1] > 1 /\ sx = <<sinput[1], 1000>>

====
